---- MODULE Spec2Model ----
(***************************************************************************)
(* Photon transfer curve measurement (lsst.cp.pipe): the result container  *)
(* PhotonTransferCurveDataset, the flat-pair loop of runDataRef, the       *)
(* outlier-rejecting fitter fitPtc, the full-covariance path and the       *)
(* direct and FFT covariance estimators of astierCovPtcUtils.              *)
(*                                                                         *)
(* Python values are modelled as follows.  A float is a record             *)
(* [nan, val]; a list or an array that may be replaced by a scalar is      *)
(* wrapped in a one-field record ([list |-> s], [array |-> s]) so that     *)
(* values of different Python types stay comparable.  Lists that are only  *)
(* ever appended to are sequences.  A dict is a function.  The instance    *)
(* __dict__ of the dataset is a function from attribute names to values.   *)
(* Variances are counted in units of _makeZeroSafe's substituteValue.      *)
(***************************************************************************)
EXTENDS Integers, Sequences, FiniteSets, TLC

VARIABLES
    config,     \* the task configuration (frozen in the task's __init__)
    dataset,    \* __dict__ of the PhotonTransferCurveDataset being filled
    run,        \* locals of runDataRef: phase, pairs done, covariance table
    fit,        \* locals of fitPtc: position, amplifier index, masks, count
    call,       \* the last dataset method called from outside, and its arguments
    exc,        \* the exception the last call or step raised ("none" if none)
    ret,        \* the value the last call returned
    image       \* a difference image, its weights and the covariance reports

vars == <<config, dataset, run, fit, call, exc, ret, image>>

-----------------------------------------------------------------------------
(* Bounds of the model.                                                    *)

MaxPairs == 2
MaxPoints == 3
MaxIterations == 2
MaxMeasurements == 4

-----------------------------------------------------------------------------
(* Python values.                                                          *)

Float(v) == [nan |-> FALSE, val |-> v]
NaN == [nan |-> TRUE, val |-> 0]
isnan(x) == x.nan
EmptyList == [list |-> <<>>]
None == [none |-> TRUE]

Range(s) == {s[k] : k \in 1..Len(s)}

\* d[key] = value on a dict: the key is added when it is missing.
dictSet(d, key, value) == (key :> value) @@ d

-----------------------------------------------------------------------------
(* Configuration fields of MeasurePhotonTransferCurveTaskConfig.           *)

FitTypes == {"POLYNOMIAL", "EXPAPPROXIMATION", "FULLCOVARIANCE"}
minMeanSignal == 1
maxMeanSignal == 10
\* The two exclusion thresholds, in hundredths.
initialNonLinearityExclusionThresholdPositive == 12
initialNonLinearityExclusionThresholdNegative == 25
polynomialFitDegree == 1
maxIterationsPtcOutliers == 2
maximumRangeCovariancesAstier == 8

-----------------------------------------------------------------------------
(* PhotonTransferCurveDataset.                                             *)

AmpNameSet == {"A", "B"}
AmpOrders == {<<"A", "B">>, <<"B", "A">>}

OBSTYPE == "PTC"
ClassAttributes == {"_OBSTYPE", "_SCHEMA", "_VERSION"}

PerAmp(ampNames, v) == [ampName \in Range(ampNames) |-> v]

\* __init__(self, ampNames, ptcFitType): the entries written into __dict__.
DatasetInit(ampNames, ptcFitType) ==
    [ptcFitType |-> ptcFitType,
     ampNames |-> ampNames,
     badAmps |-> <<>>,
     inputExpIdPairs |-> PerAmp(ampNames, <<>>),
     expIdMask |-> PerAmp(ampNames, <<>>),
     rawExpTimes |-> PerAmp(ampNames, <<>>),
     rawMeans |-> PerAmp(ampNames, <<>>),
     rawVars |-> PerAmp(ampNames, <<>>),
     photoCharge |-> PerAmp(ampNames, <<>>),
     gain |-> PerAmp(ampNames, Float(-1)),
     gainErr |-> PerAmp(ampNames, Float(-1)),
     noise |-> PerAmp(ampNames, Float(-1)),
     noiseErr |-> PerAmp(ampNames, Float(-1)),
     ptcFitPars |-> PerAmp(ampNames, EmptyList),
     ptcFitParsError |-> PerAmp(ampNames, EmptyList),
     ptcFitChiSq |-> PerAmp(ampNames, EmptyList),
     covariancesFitsWithNoB |-> PerAmp(ampNames, EmptyList),
     covariancesFits |-> PerAmp(ampNames, EmptyList),
     aMatrix |-> PerAmp(ampNames, <<>>),
     bMatrix |-> PerAmp(ampNames, <<>>),
     finalVars |-> PerAmp(ampNames, <<>>),
     finalModelVars |-> PerAmp(ampNames, <<>>),
     finalMeans |-> PerAmp(ampNames, <<>>)]

\* The call cls(*args): __init__ takes two required positional arguments.
PhotonTransferCurveDataset(args) ==
    IF Len(args) # 2
    THEN [exc |-> "TypeError", value |-> None]
    ELSE [exc |-> "none", value |-> DatasetInit(args[1], args[2])]

\* The attributes that hold one entry per amplifier.
PerAmpAttributes ==
    {"inputExpIdPairs", "expIdMask", "rawExpTimes", "rawMeans", "rawVars",
     "photoCharge", "gain", "gainErr", "noise", "noiseErr", "ptcFitPars",
     "ptcFitParsError", "ptcFitChiSq", "covariancesFitsWithNoB",
     "covariancesFits", "aMatrix", "bMatrix", "finalVars", "finalModelVars",
     "finalMeans"}

\* A __setattr__ that lacks the membership test.
setattrUnprotected(self, attribute, value) ==
    [exc |-> "none", self |-> dictSet(self, attribute, value)]

\* __setattr__(self, attribute, value): the new __dict__ and the exception.
__setattr__(self, attribute, value) ==
    IF attribute \notin DOMAIN self
    THEN [exc |-> "AttributeError", self |-> self]
    ELSE [exc |-> "none", self |-> [self EXCEPT ![attribute] = value]]

\* Reading self.<attribute>: instance __dict__ first, then the class.
getattr(self, attribute) ==
    IF attribute \in DOMAIN self
    THEN [exc |-> "none", value |-> self[attribute]]
    ELSE IF attribute \in ClassAttributes
         THEN [exc |-> "none", value |-> OBSTYPE]
         ELSE [exc |-> "AttributeError", value |-> None]

\* zip(pairs, mask) filtered on the mask, as the list comprehension does.
RECURSIVE zipSelect(_, _)
zipSelect(pairs, mask) ==
    IF pairs = <<>> \/ mask = <<>>
    THEN <<>>
    ELSE IF Head(mask) = TRUE
         THEN <<Head(pairs)>> \o zipSelect(Tail(pairs), Tail(mask))
         ELSE zipSelect(Tail(pairs), Tail(mask))

\* A getExpIdsUsed that never consults the mask.
getExpIdsIgnoringMask(self, ampName) ==
    [exc |-> "none", value |-> self.inputExpIdPairs[ampName]]

getExpIdsUsed(self, ampName) ==
    IF Len(self.expIdMask[ampName]) = 0
    THEN [exc |-> "none", value |-> self.inputExpIdPairs[ampName]]
    ELSE IF Len(self.expIdMask[ampName]) # Len(self.inputExpIdPairs[ampName])
         THEN [exc |-> "AssertionError", value |-> None]
         ELSE [exc |-> "none",
               value |-> zipSelect(self.inputExpIdPairs[ampName],
                                   self.expIdMask[ampName])]

\* toDict: the keys of outDict in order, each with the attribute it is read from.
toDictReads ==
    <<  <<"fitType", "fitType">>, <<"ampNames", "ampnames">>,
        <<"badAmps", "badAmps">>, <<"inputExpIdPairs", "inputExpIdPairs">>,
        <<"expIdMask", "expIdMask">>, <<"rawExpTimes", "rawExpTimes">>,
        <<"rawMeans", "rawMeans">>, <<"rawVars", "rawVars">>,
        <<"gain", "gain">>, <<"gainErr", "gainErr">>, <<"noise", "noise">>,
        <<"noiseErr", "noiseErr">>, <<"ptcFitPars", "ptcFitPars">>,
        <<"ptcFitParsError", "ptcFitParsError">>,
        <<"ptcFitChiSq", "ptcFitChiSq">>,
        <<"covariancesFitsWithNoB", "covariancesFitsWithNoB">>,
        <<"covariancesFits", "covariancesFits">>, <<"aMatrix", "aMatrix">>,
        <<"bMatrix", "bMatrix">>, <<"finalVars", "finalVars">>,
        <<"finalModelVars", "finalModelVars">>,
        <<"finalMeans", "finalMeans">>  >>

\* updateMetadata and getMetadata: the keywords the calibration carries.
getMetadata(self) == [OBSTYPE |-> OBSTYPE, PTC_FIT_TYPE |-> self.ptcFitType]

toDict(self) ==
    LET failed == {k \in 1..Len(toDictReads) :
                       getattr(self, toDictReads[k][2]).exc # "none"}
        attributeOf(key) ==
            toDictReads[CHOOSE k \in 1..Len(toDictReads) : toDictReads[k][1] = key][2]
        keys == {toDictReads[k][1] : k \in 1..Len(toDictReads)}
    IN  IF failed # {}
        THEN [exc |-> "AttributeError", value |-> None]
        ELSE [exc |-> "none",
              value |-> [key \in keys \cup {"metadata"} |->
                            IF key = "metadata" THEN getMetadata(self)
                            ELSE self[attributeOf(key)]]]

\* fromDict: the attributes assigned, in order, each with the key it is read from.
fromDictWrites ==
    <<  <<"ptcFitType", "fitType">>, <<"badAmps", "badAmps">>,
        <<"ampNames", "ampNames">>, <<"inputExpIdPairs", "inputExpIdPairs">>,
        <<"expIdMask", "expIdMask">>, <<"rawExpTimes", "rawExpTimes">>,
        <<"rawMeans", "rawMeans">>, <<"rawVars", "rawVars">>,
        <<"gain", "gain">>, <<"gainErr", "gainErr">>, <<"noise", "noise">>,
        <<"noiseErr", "noiseErr">>, <<"ptcFitPars", "ptcFitPars">>,
        <<"ptcFitParsError", "ptcFitParsError">>,
        <<"ptcFitChiSq", "ptcFitChiSq">>,
        <<"covariancesFitsWithNoB", "covariancesFitsWithNoB">>,
        <<"covariancesFits", "covariancesFits">>, <<"aMatrix", "aMatrix">>,
        <<"bMatrix", "bMatrix">>, <<"finalVars", "finalVars">>,
        <<"finalModelVars", "finalModelVars">>,
        <<"finalMeans", "finalMeans">>  >>

RECURSIVE assignAll(_, _, _)
assignAll(calib, dictionary, k) ==
    IF k > Len(fromDictWrites)
    THEN [exc |-> "none", value |-> calib]
    ELSE LET set == __setattr__(calib, fromDictWrites[k][1],
                                dictionary[fromDictWrites[k][2]])
         IN  IF set.exc # "none"
             THEN [exc |-> set.exc, value |-> None]
             ELSE assignAll(set.self, dictionary, k + 1)

fromDict(dictionary) ==
    LET calib == PhotonTransferCurveDataset(<<>>)
    IN  IF calib.exc # "none"
        THEN [exc |-> calib.exc, value |-> None]
        ELSE IF OBSTYPE # dictionary.metadata.OBSTYPE
             THEN [exc |-> "RuntimeError", value |-> None]
             ELSE assignAll(calib.value, dictionary, 1)

\* A dictionary of the documented layout holding the fields of a dataset,
\* tagged with an observation type: the inputs fromDict is given.
dictionaryOf(self, obstype) ==
    [key \in {fromDictWrites[k][2] : k \in 1..Len(fromDictWrites)} \cup {"metadata"} |->
        IF key = "metadata"
        THEN [OBSTYPE |-> obstype, PTC_FIT_TYPE |-> self.ptcFitType]
        ELSE self[fromDictWrites[CHOOSE k \in 1..Len(fromDictWrites) :
                                     fromDictWrites[k][2] = key][1]]]

-----------------------------------------------------------------------------
(* fitPtc: helpers.                                                        *)

substituteValue == 1

\* _makeZeroSafe logging its warning whether or not warn is set.
makeZeroSafeWarnAlways(array, warn) ==
    LET zeros == {k \in 1..Len(array) : array[k] = 0}
    IN  [array |-> [k \in 1..Len(array) |->
                       IF k \in zeros THEN substituteValue ELSE array[k]],
         warned |-> zeros # {}]

\* _makeZeroSafe(array, warn): zeros replaced, and whether a warning was logged.
_makeZeroSafe(array, warn) ==
    LET nBad == Cardinality({k \in 1..Len(array) : array[k] = 0})
    IN  IF nBad = 0
        THEN [array |-> array, warned |-> FALSE]
        ELSE [array |-> [k \in 1..Len(array) |->
                            IF array[k] = 0 THEN substituteValue ELSE array[k]],
              warned |-> warn]

any(mask) == \E k \in 1..Len(mask) : mask[k]
maskAnd(m1, m2) == [k \in 1..Len(m1) |-> m1[k] /\ m2[k]]
nTrue(mask) == Cardinality({k \in 1..Len(mask) : mask[k]})

\* (meanVecOriginal >= minMeanSignal) & (meanVecOriginal <= maxMeanSignal)
signalWindowMask(means) ==
    [k \in 1..Len(means) |-> means[k] >= minMeanSignal /\ means[k] <= maxMeanSignal]

\* Ratios b/a are exact fractions <<b, a>>; every mean is positive.
ratLess(p, q) == p[1] * q[2] < q[1] * p[2]

\* Twice np.median(ratios): the sum of the two middle elements (the middle one
\* counted twice when the length is odd), as a fraction.
medianTimes2(ratios) ==
    LET n == Len(ratios)
        less(k) == Cardinality({j \in 1..n : ratLess(ratios[j], ratios[k])})
        more(k) == Cardinality({j \in 1..n : ratLess(ratios[k], ratios[j])})
        lo == CHOOSE k \in 1..n : less(k) <= (n - 1) \div 2 /\ more(k) <= n \div 2
        hi == CHOOSE k \in 1..n : less(k) <= n \div 2 /\ more(k) <= (n - 1) \div 2
    IN  <<ratios[lo][1] * ratios[hi][2] + ratios[hi][1] * ratios[lo][2],
          ratios[lo][2] * ratios[hi][2]>>

\* _getInitialGoodPoints: r/median - 1 < positive and r/median - 1 > -negative,
\* with the thresholds in hundredths and both sides cleared of denominators.
_getInitialGoodPoints(means, variances, maxDeviationPositive, maxDeviationNegative) ==
    LET n == Len(means)
        ratios == [k \in 1..n |-> <<variances[k], means[k]>>]
        m2 == medianTimes2(ratios)
        lhs(k) == 2 * ratios[k][1] * m2[2] * 100
    IN  [k \in 1..n |->
            /\ n > 0
            /\ lhs(k) < m2[1] * (100 + maxDeviationPositive) * ratios[k][2]
            /\ lhs(k) > m2[1] * (100 - maxDeviationNegative) * ratios[k][2]]

\* Number of parameters of the model: len(parsIniPtc).
nPars(ptcFitType) ==
    IF ptcFitType = "EXPAPPROXIMATION" THEN 3 ELSE polynomialFitDegree + 1

\* A "BAD" block that files the NaN values under the literal key 'ampName'.
setBadLiteralKey(self, ampName) ==
    [self EXCEPT !.badAmps = Append(@, ampName),
                 !.gain = dictSet(@, "ampName", NaN),
                 !.gainErr = dictSet(@, "ampName", NaN),
                 !.noise = dictSet(@, "ampName", NaN),
                 !.noiseErr = dictSet(@, "ampName", NaN),
                 !.ptcFitPars = dictSet(@, "ampName", NaN),
                 !.ptcFitParsError = dictSet(@, "ampName", NaN),
                 !.ptcFitChiSq = dictSet(@, "ampName", NaN)]

\* The "Setting ampName to BAD" block of fitPtc.
setBad(self, ampName) ==
    [self EXCEPT !.badAmps = Append(@, ampName),
                 !.gain = dictSet(@, ampName, NaN),
                 !.gainErr = dictSet(@, ampName, NaN),
                 !.noise = dictSet(@, ampName, NaN),
                 !.noiseErr = dictSet(@, ampName, NaN),
                 !.ptcFitPars = dictSet(@, ampName, NaN),
                 !.ptcFitParsError = dictSet(@, ampName, NaN),
                 !.ptcFitChiSq = dictSet(@, ampName, NaN)]

\* The values a converged fit may return for the gain parameter.
FitValues == {1, 2}

\* The tail of fitPtc's loop body: parameters, then gain and noise from them.
setFitted(self, ampName, ptcFitType, g) ==
    [self EXCEPT !.ptcFitPars =
                     dictSet(@, ampName, [array |-> [k \in 1..nPars(ptcFitType) |-> Float(g)]]),
                 !.ptcFitParsError =
                     dictSet(@, ampName, [array |-> [k \in 1..nPars(ptcFitType) |-> Float(0)]]),
                 !.ptcFitChiSq = dictSet(@, ampName, Float(1)),
                 !.gain = dictSet(@, ampName, Float(g)),
                 !.gainErr = dictSet(@, ampName, Float(0)),
                 !.noise = dictSet(@, ampName, Float(g)),
                 !.noiseErr = dictSet(@, ampName, Float(0))]

\* dataset.expIdMask[ampName] = mask[mask]: only the retained entries are kept.
storeRetainedMask(self, ampName, mask) ==
    [self EXCEPT !.expIdMask = dictSet(@, ampName, SelectSeq(mask, LAMBDA m : m))]

\* dataset.expIdMask[ampName] = mask
storeMask(self, ampName, mask) == [self EXCEPT !.expIdMask = dictSet(@, ampName, mask)]

\* mask = newMask: the residual cut replaces the mask instead of narrowing it.
replaceMask(mask, newMask) == newMask

\* mask = mask & newMask
combineMask(mask, newMask) == maskAnd(mask, newMask)

-----------------------------------------------------------------------------
(* fitPtc: the steps.                                                      *)

NoCall == [name |-> "none"]
NoImage == [shape |-> <<0, 0>>]
FitIdle == [pc |-> "idle", i |-> 0, mask |-> <<>>, initialMask |-> <<>>,
            newMask |-> <<>>, newMaskBound |-> FALSE, count |-> 0, fits |-> 0,
            runs |-> 0]

ampOf(k) == dataset.ampNames[k]
meanVecOriginal(ampName) == dataset.rawMeans[ampName]
varVecOriginal(ampName) == _makeZeroSafe(dataset.rawVars[ampName], TRUE).array

\* The list under rawVars if _makeZeroSafe worked on the list itself.
rawVarsAliased(self, ampName) == _makeZeroSafe(self.rawVars[ampName], TRUE).array

\* dataset.rawVars[ampName] after lines 1086-1087: np.array(list) is a new
\* array, so the in-place substitution of _makeZeroSafe does not reach the list.
rawVarsAfterZeroSafe(self, ampName) == self.rawVars[ampName]

\* not mask.any(): the ratio mask is not consulted.
noWindowPoints(mask, goodPoints) == ~any(mask)

\* not (mask.any() and goodPoints.any())
noInitialPoints(mask, goodPoints) == ~(any(mask) /\ any(goodPoints))

\* for i, ampName in enumerate(dataset.ampNames): up to the outlier loop.
FitAmpBegin ==
    /\ fit.pc = "amp"
    /\ fit.i <= Len(dataset.ampNames)
    /\ LET ampName == ampOf(fit.i)
           mask == signalWindowMask(meanVecOriginal(ampName))
           goodPoints ==
               _getInitialGoodPoints(meanVecOriginal(ampName), varVecOriginal(ampName),
                                     initialNonLinearityExclusionThresholdPositive,
                                     initialNonLinearityExclusionThresholdNegative)
           arrays == [dataset EXCEPT
                         !.rawVars = dictSet(@, ampName,
                                             rawVarsAfterZeroSafe(dataset, ampName))]
       IN  IF noInitialPoints(mask, goodPoints)
           THEN /\ dataset' = setBad(arrays, ampName)
                /\ fit' = [fit EXCEPT !.i = @ + 1]
           ELSE /\ dataset' = arrays
                /\ fit' = [fit EXCEPT !.pc = "loop", !.count = 1, !.fits = 0,
                                      !.mask = maskAnd(mask, goodPoints),
                                      !.initialMask = maskAnd(mask, goodPoints)]
    /\ exc' = "none"
    /\ UNCHANGED <<config, run, call, ret, image>>

\* One pass of "while count <= maxIterationsPtcOutliers": least_squares on the
\* retained points, then the residual cut over all points.  The solver is
\* external: the residual mask it leads to is any mask.
FitIteration ==
    /\ fit.pc = "loop"
    /\ fit.count <= config.maxIterationsPtcOutliers
    /\ \E newMask \in [1..Len(fit.mask) -> BOOLEAN] :
          LET mask == combineMask(fit.mask, newMask)
          IN  IF ~(any(mask) /\ any(newMask))
              THEN /\ dataset' = setBad(dataset, ampOf(fit.i))
                   /\ fit' = [fit EXCEPT !.pc = "afterLoop", !.mask = mask,
                                         !.newMask = newMask, !.newMaskBound = TRUE,
                                         !.fits = @ + 1]
              ELSE /\ dataset' = dataset
                   /\ fit' = [fit EXCEPT !.mask = mask, !.newMask = newMask,
                                         !.newMaskBound = TRUE, !.count = @ + 1,
                                         !.fits = @ + 1]
    /\ exc' = "none"
    /\ UNCHANGED <<config, run, call, ret, image>>

\* From the line after the loop to the end of the loop body.
FitAmpEnd ==
    /\ \/ fit.pc = "afterLoop"
       \/ fit.pc = "loop" /\ fit.count > config.maxIterationsPtcOutliers
    /\ LET ampName == ampOf(fit.i)
           next == [fit EXCEPT !.pc = "amp", !.i = @ + 1]
       IN  IF ~any(fit.mask)
           THEN dataset' = dataset /\ fit' = next /\ exc' = "none"
           ELSE IF ~fit.newMaskBound
           THEN dataset' = dataset /\ fit' = [fit EXCEPT !.pc = "raised"]
                /\ exc' = "UnboundLocalError"
           ELSE IF ~any(fit.newMask)
           THEN dataset' = dataset /\ fit' = next /\ exc' = "none"
           ELSE IF nTrue(fit.mask) < nPars(config.ptcFitType)
           THEN /\ dataset' = setBad(storeMask(dataset, ampName, fit.mask), ampName)
                /\ fit' = next /\ exc' = "none"
           ELSE \E g \in FitValues :
                   /\ dataset' = setFitted(storeMask(dataset, ampName, fit.mask),
                                           ampName, config.ptcFitType, g)
                   /\ fit' = next /\ exc' = "none"
    /\ UNCHANGED <<config, run, call, ret, image>>

\* After the last amplifier: the fit type is recorded and fitPtc returns the
\* dataset it was given (the same object, named here by reference).
FitReturn ==
    /\ fit.pc = "amp"
    /\ fit.i > Len(dataset.ampNames)
    /\ LET set == IF dataset.ptcFitType # ""
                  THEN __setattr__(dataset, "ptcFitType", config.ptcFitType)
                  ELSE [exc |-> "none", self |-> dataset]
       IN  dataset' = set.self /\ exc' = set.exc
    /\ fit' = [fit EXCEPT !.pc = "returned"]
    /\ ret' = [ref |-> "dataset"]
    /\ UNCHANGED <<config, run, call, image>>

-----------------------------------------------------------------------------
(* fitPtc on a dataset filled in directly by the caller.                   *)

\* Raw points (mean, variance): a mean inside or above the signal window; a
\* variance on the line variance = 2*mean, or zero.
MeanValues == {maxMeanSignal - 1, maxMeanSignal + 1}
Points == {<<m, v>> : m \in MeanValues, v \in {0}} \cup {<<m, 2 * m>> : m \in MeanValues}

expIdPair(k) == <<2 * k - 1, 2 * k>>

filled(ampNames, ptcFitType, points) ==
    [DatasetInit(ampNames, ptcFitType) EXCEPT
        !.rawExpTimes = [a \in Range(ampNames) |-> [k \in 1..Len(points[a]) |-> k]],
        !.rawMeans = [a \in Range(ampNames) |-> [k \in 1..Len(points[a]) |-> points[a][k][1]]],
        !.rawVars = [a \in Range(ampNames) |-> [k \in 1..Len(points[a]) |-> points[a][k][2]]],
        !.inputExpIdPairs = [a \in Range(ampNames) |->
                                [k \in 1..Len(points[a]) |-> expIdPair(k)]]]

InitFit ==
    /\ config \in [ptcFitType : {"POLYNOMIAL", "EXPAPPROXIMATION"},
                   maxIterationsPtcOutliers : 0..MaxIterations]
    /\ \E nA \in 0..MaxPoints :
         \E nB \in 0..(MaxPoints - nA) :
           \E pA \in [1..nA -> Points] :
             \E pB \in [1..nB -> Points] :
               dataset = filled(<<"A", "B">>, config.ptcFitType,
                                [a \in AmpNameSet |-> IF a = "A" THEN pA ELSE pB])
    /\ run = [phase |-> "fit"]
    /\ fit = [FitIdle EXCEPT !.pc = "amp", !.i = 1, !.runs = 1]
    /\ call = NoCall
    /\ exc = "none"
    /\ ret = None
    /\ image = NoImage

NextFit ==
    \/ FitAmpBegin
    \/ FitIteration
    \/ FitAmpEnd
    \/ FitReturn

SpecFit == InitFit /\ [][NextFit]_vars

-----------------------------------------------------------------------------
(* fitPtc called again on the dataset a previous call has filled.          *)

MaxRuns == 2

\* The caller calls fitPtc(dataset, ptcFitType) once more: the locals of the
\* previous call are gone, the dataset is as that call left it.
FitAgain ==
    /\ fit.pc = "returned"
    /\ fit.runs < MaxRuns
    /\ fit' = [FitIdle EXCEPT !.pc = "amp", !.i = 1, !.runs = fit.runs + 1]
    /\ exc' = "none"
    /\ ret' = None
    /\ UNCHANGED <<config, dataset, run, call, image>>

NextRefit ==
    \/ NextFit
    \/ FitAgain

SpecRefit == InitFit /\ [][NextRefit]_vars

-----------------------------------------------------------------------------
(* The full-covariance path: fitData, loadData, fitCovariancesAstier.      *)

\* def fitData(tupleName, maxMu=1e9, r=8): the parameters it accepts.
fitDataParameters == {"tupleName", "maxMu", "r"}

\* The keywords fitCovariancesAstier passes to fitData.
fitDataKeywords == {"maxMu", "r", "nSigmaFullFit", "maxIterFullFit"}

\* LoadParams.__init__: maxMuElectrons, in the unit in which maxMu is counted
\* here (1e9 in the source).
maxMuElectrons == 12

\* The crude gains initFit may arrive at.
Gains == {1, 2, 3}

\* The passes of the tuning loop: for iter in range(3).
TuningPasses == 3

\* A CovFit object (class of astierCovPtcFit): the amplifier it was built
\* for, its cuts (fractions <<num, den>>, <<0, 0>> when not set), its gain,
\* whether the "c" (B) parameter is free, and the fits made on it, in order.
NoCut == <<0, 0>>
CovFit(ext, r) ==
    [ext |-> ext, r |-> r, maxMu |-> NoCut, maxMuElectrons |-> NoCut,
     gain |-> 0, cFree |-> FALSE, fits |-> <<>>]

\* CovFit.copy: a snapshot that later changes of the original do not reach.
copy(c) == c
setMaxMu(c, maxMu) == [c EXCEPT !.maxMu = maxMu]
setMaxMuElectrons(c, maxMuEl) == [c EXCEPT !.maxMuElectrons = maxMuEl]
initFit(c, gain) == [c EXCEPT !.gain = gain, !.fits = Append(@, "initFit")]
getGain(c) == c.gain
fitFullModel(c) ==
    [c EXCEPT !.fits = Append(@, IF c.cFree THEN "fitFullModel, c free"
                                 ELSE "fitFullModel, c fixed")]
release(c) == [c EXCEPT !.cFree = TRUE]

\* np.unique(tupleName['ampName']): the names in the table, sorted.
uniqueAmpNames(tupleName) ==
    SelectSeq(<<"A", "B">>,
              LAMBDA a : \E k \in 1..Len(tupleName) : tupleName[k].ampName = a)

\* The tuning loop of loadData for one CovFit c, from pass iter on; crude[k]
\* is the gain initFit finds in pass k.  After the last pass the loop is left
\* without its break; cc is then the copy made in that pass.
RECURSIVE tuneMaxMu(_, _, _, _)
tuneMaxMu(c, thisMaxMu, crude, iter) ==
    LET cc == initFit(setMaxMu(copy(c), thisMaxMu), crude[iter])
        gain == getGain(cc)
    IN  IF thisMaxMu[1] * gain < maxMuElectrons * thisMaxMu[2]
        THEN IF iter = TuningPasses
             THEN [cc |-> cc, broke |-> FALSE, passes |-> iter]
             ELSE tuneMaxMu(c, <<maxMuElectrons, gain>>, crude, iter + 1)
        ELSE [cc |-> setMaxMuElectrons(cc, <<maxMuElectrons, 1>>),
              broke |-> TRUE, passes |-> iter]

\* loadData(tupleName, params): one CovFit per amplifier name of the table,
\* each as the tuning loop left it.
loadData(tupleName, params, crude) ==
    [ext \in Range(uniqueAmpNames(tupleName)) |->
        tuneMaxMu(CovFit(ext, params.r), <<params.maxMu, 1>>, crude[ext], 1).cc]

\* The body of fitData's loop with the copy taken after the second fit.
fitAmplifierCopyLast(c) ==
    LET second == fitFullModel(release(fitFullModel(c)))
    IN  [covFit |-> second, covFitNoB |-> copy(second)]

\* The body of fitData's loop for one CovFit: c.fitFullModel(); the copy;
\* c.params['c'].release(); c.fitFullModel().
fitAmplifier(c) ==
    LET first == fitFullModel(c)
        noB == copy(first)
        second == fitFullModel(release(first))
    IN  [covFit |-> second, covFitNoB |-> noB]

\* fitData(tupleName, maxMu, r): (covFitList, covFitNoBList).
fitData(tupleName, maxMu, r, crude) ==
    LET covFitList == loadData(tupleName, [maxMu |-> maxMu, r |-> r], crude)
    IN  [covFits |-> [ext \in DOMAIN covFitList |-> fitAmplifier(covFitList[ext]).covFit],
         covFitsNoB |-> [ext \in DOMAIN covFitList |->
                            fitAmplifier(covFitList[ext]).covFitNoB]]

\* getOutputPtcDataCovAstier: the per-amplifier outputs read off each fit.
RECURSIVE getOutputPtcDataCovAstier(_, _, _)
getOutputPtcDataCovAstier(self, covFits, todo) ==
    IF todo = {}
    THEN self
    ELSE LET amp == CHOOSE a \in todo : TRUE
             varMask == [k \in 1..Len(self.rawMeans[amp]) |-> TRUE]
             out == [self EXCEPT
                        !.expIdMask = dictSet(@, amp, varMask),
                        !.gain = dictSet(@, amp, Float(getGain(covFits[amp]))),
                        !.gainErr = dictSet(@, amp, Float(0)),
                        !.noise = dictSet(@, amp, Float(1)),
                        !.noiseErr = dictSet(@, amp, Float(0)),
                        !.finalVars[amp] = Append(@, self.rawVars[amp]),
                        !.finalModelVars[amp] = Append(@, self.rawVars[amp]),
                        !.finalMeans[amp] = Append(@, self.rawMeans[amp]),
                        !.aMatrix[amp] = Append(@, covFits[amp]),
                        !.bMatrix[amp] = Append(@, covFits[amp])]
         IN  getOutputPtcDataCovAstier(out, covFits, todo \ {amp})

\* The gains initFit may find in the tuning passes of a call of fitData from
\* fitCovariancesAstier: none when the call is rejected before it runs.
crudeGains(covariancesWithTagsArray) ==
    IF fitDataKeywords \subseteq fitDataParameters
    THEN [Range(uniqueAmpNames(covariancesWithTagsArray)) -> [1..TuningPasses -> Gains]]
    ELSE {<<>>}

fitCovariancesAstier(self, covariancesWithTagsArray, crude) ==
    IF ~(fitDataKeywords \subseteq fitDataParameters)
    THEN [exc |-> "TypeError", self |-> self]
    ELSE LET fits == fitData(covariancesWithTagsArray, maxMeanSignal,
                             maximumRangeCovariancesAstier, crude)
             set1 == __setattr__(self, "covariancesFits", fits.covFits)
             set2 == __setattr__(set1.self, "covariancesFitsWithNoB", fits.covFitsNoB)
         IN  [exc |-> "none",
              self |-> getOutputPtcDataCovAstier(set2.self, fits.covFits,
                                                 DOMAIN fits.covFits)]

-----------------------------------------------------------------------------
(* fitData and getOutputPtcDataCovAstier called on a covariance table.     *)

MaxRows == 3

\* The maximum mean signals fitData is called with: below and above
\* maxMuElectrons.
MaxMuValues == {3, 24}

\* Covariance tables: rows of amplifier names, in any order.
Tables == UNION {[1..n -> [ampName : AmpNameSet]] : n \in 0..MaxRows}

InitFull ==
    /\ config = [ptcFitType |-> "FULLCOVARIANCE",
                 maxIterationsPtcOutliers |-> maxIterationsPtcOutliers]
    /\ dataset = DatasetInit(<<"A", "B">>, "FULLCOVARIANCE")
    /\ \E tupleName \in Tables : run = [phase |-> "full", tupleName |-> tupleName]
    /\ fit = FitIdle
    /\ call = NoCall
    /\ exc = "none"
    /\ ret = None
    /\ image = NoImage

\* covFits, covFitsNoB = fitData(tupleName, maxMu, r); crude holds the gains
\* initFit finds in the passes of each amplifier's tuning loop.
CallFitData ==
    /\ run.phase = "full"
    /\ call = NoCall
    /\ \E maxMu \in MaxMuValues :
         \E crude \in [Range(uniqueAmpNames(run.tupleName)) ->
                          [1..TuningPasses -> Gains]] :
           /\ call' = [name |-> "fitData", tupleName |-> run.tupleName,
                       maxMu |-> maxMu, r |-> maximumRangeCovariancesAstier,
                       crude |-> crude]
           /\ ret' = fitData(run.tupleName, maxMu, maximumRangeCovariancesAstier, crude)
    /\ UNCHANGED <<config, dataset, run, fit, exc, image>>

\* dataset = getOutputPtcDataCovAstier(dataset, covFits), on what fitData
\* returned.
CallGetOutput ==
    /\ run.phase = "full"
    /\ call.name = "fitData"
    /\ dataset' = getOutputPtcDataCovAstier(dataset, ret.covFits, DOMAIN ret.covFits)
    /\ call' = [call EXCEPT !.name = "getOutputPtcDataCovAstier"]
    /\ run' = [run EXCEPT !.phase = "done"]
    /\ UNCHANGED <<config, fit, exc, ret, image>>

NextFull ==
    \/ CallFitData
    \/ CallGetOutput

SpecFull == InitFull /\ [][NextFull]_vars

-----------------------------------------------------------------------------
(* _makeZeroSafe called on an array.                                       *)

\* Arrays of variances: zero, the substitute value itself, and other values.
ZeroSafeArrays ==
    UNION {[1..n -> {0, substituteValue, 18, 20}] : n \in 0..MaxPoints}

InitZeroSafe ==
    /\ config = [ptcFitType |-> "POLYNOMIAL",
                 maxIterationsPtcOutliers |-> maxIterationsPtcOutliers]
    /\ dataset = DatasetInit(<<"A">>, "POLYNOMIAL")
    /\ run = [phase |-> "zeroSafe"]
    /\ fit = FitIdle
    /\ call = NoCall
    /\ exc = "none"
    /\ ret = None
    /\ image = NoImage

\* self._makeZeroSafe(array, warn=warn)
CallMakeZeroSafe ==
    /\ run.phase = "zeroSafe"
    /\ \E array \in ZeroSafeArrays :
         \E warn \in BOOLEAN :
           /\ call' = [name |-> "_makeZeroSafe", array |-> array, warn |-> warn]
           /\ ret' = _makeZeroSafe(array, warn)
    /\ UNCHANGED <<config, dataset, run, fit, exc, image>>

NextZeroSafe == CallMakeZeroSafe

SpecZeroSafe == InitZeroSafe /\ [][NextZeroSafe]_vars

-----------------------------------------------------------------------------
(* runDataRef.                                                             *)

AmpLists == {<<"A">>, <<"A", "B">>}

\* What measureMeanVarCov may return for one amplifier of one pair: NaN
\* means (no covariances), a NaN variance, or a mean, a variance and the
\* covariance report, a list of tuples (dx, dy, var, cov, npix): here the
\* one of lag (0,0), or that one and the one of lag (1,0) in an image where
\* no pixel and its neighbour are both unmasked (covDirectValue divides by
\* nPix = 0 there: the covariance is NaN and npix is 0).
\* The means are the two ends of the signal window and a value inside it.
covReport(v) == [list |-> << <<0, 0, v, Float(v), 1>> >>]
covReportNoNeighbours(v) ==
    [list |-> << <<0, 0, v, Float(v), 1>>, <<1, 0, v, NaN, 0>> >>]

\* (muDiff, ) + covRow + (ampNumber, expTime, ampName) for covRow in covAstier
tupleRowsOf(muDiff, covAstier, ampNumber, expTime, ampName) ==
    [k \in 1..Len(covAstier.list) |->
        [mu |-> muDiff,
         i |-> covAstier.list[k][1], j |-> covAstier.list[k][2],
         var |-> covAstier.list[k][3], cov |-> covAstier.list[k][4],
         npix |-> covAstier.list[k][5],
         ext |-> ampNumber, expTime |-> expTime, ampName |-> ampName]]
Measurements ==
    {[mu |-> NaN, varDiff |-> NaN, covAstier |-> None]}
    \cup {[mu |-> Float(maxMeanSignal - 1), varDiff |-> NaN, covAstier |-> covReport(0)]}
    \cup {[mu |-> Float(m), varDiff |-> Float(2 * m), covAstier |-> covReport(2 * m)] :
             m \in {minMeanSignal, maxMeanSignal}}
    \cup {[mu |-> Float(maxMeanSignal - 1), varDiff |-> Float(2 * (maxMeanSignal - 1)),
           covAstier |-> covReport(2 * (maxMeanSignal - 1))]}
    \cup {[mu |-> Float(maxMeanSignal - 1), varDiff |-> Float(0),
           covAstier |-> covReportNoNeighbours(0)]}

tags == <<"mu", "i", "j", "var", "cov", "npix", "ext", "expTime", "ampName">>

\* np.isnan(muDiff): the variance and the covariance list are not looked at.
isNanMean(m) == isnan(m.mu)

\* np.isnan(muDiff) or np.isnan(varDiff) or (covAstier is None)
isNanMeasurement(m) == isnan(m.mu) \/ isnan(m.varDiff) \/ m.covAstier = None

\* (muDiff <= minMeanSignal) or (muDiff >= maxMeanSignal): the pair is skipped.
outsideWindow(muDiff) == muDiff <= minMeanSignal \/ muDiff >= maxMeanSignal

ampNumber(ampName) == (CHOOSE k \in 1..Len(run.ampNames) : run.ampNames[k] = ampName) - 1

RunIdle == [phase |-> "idle"]

\* config.doPhotodiode and what getBOTphotodiodeData finds: the photodiode
\* correction is off, or it is on and the data of every exposure is found,
\* or it is on and no data is found.
PhotodiodeModes == {"off", "found", "missing"}

\* photodiodeData.getCharge() for an exposure (a value that tells the
\* exposures apart), and the not-found value.
getCharge(expId) == 100 + expId
photoChargeOf(expIds, mode) ==
    IF mode = "found" THEN <<getCharge(expIds[1]), getCharge(expIds[2])>>
    ELSE <<-1, -1>>

\* datasetPtc.photoCharge after the photodiode section of runDataRef.
photoChargeRead(ampNames, nPairs, mode) ==
    [a \in Range(ampNames) |->
        IF mode = "off" THEN <<>>
        ELSE [k \in 1..nPairs |-> photoChargeOf(expIdPair(k), mode)]]

InitRun ==
    /\ config \in [ptcFitType : FitTypes,
                   maxIterationsPtcOutliers : {0, maxIterationsPtcOutliers}]
    /\ \E ampNames \in AmpLists :
         \E nPairs \in 0..MaxPairs :
          \E photodiode \in PhotodiodeModes :
           /\ Len(ampNames) * nPairs <= MaxMeasurements
           /\ dataset = [DatasetInit(ampNames, config.ptcFitType) EXCEPT
                            !.photoCharge = photoChargeRead(ampNames, nPairs, photodiode)]
           /\ run = [phase |-> "pairs", ampNames |-> ampNames, nPairs |-> nPairs,
                     photodiode |-> photodiode,
                     k |-> 0, measured |-> <<>>, tupleRecords |-> <<>>,
                     allTags |-> <<>>, fitCalls |-> <<>>, datasetPtc |-> "dataset", put |-> "nothing"]
    /\ fit = FitIdle
    /\ call = NoCall
    /\ exc = "none"
    /\ ret = None
    /\ image = NoImage

\* One pass of "for expTime, (exp1, exp2) in expPairs.items()"; run.measured
\* holds what measureMeanVarCov returned for each amplifier in this pass.
AppendPair ==
    /\ run.phase = "pairs"
    /\ run.k < run.nPairs
    /\ \E measured \in [Range(run.ampNames) -> Measurements] :
          LET expTime == run.k + 1
              recorded(a) == /\ ~isNanMeasurement(measured[a])
                             /\ ~outsideWindow(measured[a].mu.val)
              nAmpsNan == Cardinality({a \in Range(run.ampNames) :
                                          isNanMeasurement(measured[a])})
              kept == SelectSeq(run.ampNames, LAMBDA a : recorded(a))
              rowsAt(j) == tupleRowsOf(measured[kept[j]].mu.val,
                                       measured[kept[j]].covAstier,
                                       ampNumber(kept[j]), expTime, kept[j])
              tupleRows == IF Len(kept) = 0 THEN <<>>
                           ELSE IF Len(kept) = 1 THEN rowsAt(1)
                           ELSE rowsAt(1) \o rowsAt(2)
              push(d, value) == [a \in DOMAIN d |->
                                    IF a \in Range(run.ampNames) /\ recorded(a)
                                    THEN Append(d[a], value[a]) ELSE d[a]]
              over(a) == IF isNanMeasurement(measured[a])
                         THEN [mu |-> 0, varDiff |-> 0]
                         ELSE [mu |-> measured[a].mu.val, varDiff |-> measured[a].varDiff.val]
              amps == Range(run.ampNames)
          IN  /\ dataset' = [dataset EXCEPT
                    !.rawExpTimes = push(@, [a \in amps |-> expTime]),
                    !.rawMeans = push(@, [a \in amps |-> over(a).mu]),
                    !.rawVars = push(@, [a \in amps |-> over(a).varDiff]),
                    !.inputExpIdPairs = push(@, [a \in amps |-> expIdPair(expTime)])]
              /\ run' = IF nAmpsNan = Len(run.ampNames)
                        THEN [run EXCEPT !.k = @ + 1, !.measured = measured]
                        ELSE [run EXCEPT !.k = @ + 1, !.measured = measured,
                                         !.allTags = @ \o tags,
                                         !.tupleRecords = @ \o tupleRows]
    /\ exc' = "none"
    /\ UNCHANGED <<config, fit, call, ret, image>>

\* After the loop: the record table is built and the configured fit is called
\* (run.fitCalls lists the fit methods called so far).
\* numpy.core.records.fromrecords is external: on an empty list of rows it
\* may raise.  The measurements of the last pass are not read again.
Dispatch ==
    /\ run.phase = "pairs"
    /\ run.k = run.nPairs
    /\ \E tableRaises \in BOOLEAN :
          /\ tableRaises => run.tupleRecords = <<>>
          /\ IF tableRaises
             THEN /\ exc' = "IndexError"
                  /\ run' = [run EXCEPT !.phase = "raised", !.measured = <<>>]
                  /\ UNCHANGED <<dataset, fit>>
             ELSE IF config.ptcFitType = "FULLCOVARIANCE"
             THEN \E crude \in crudeGains(run.tupleRecords) :
                  LET done == fitCovariancesAstier(dataset, run.tupleRecords, crude)
                  IN  /\ dataset' = done.self
                      /\ exc' = done.exc
                      /\ run' = [run EXCEPT !.measured = <<>>,
                                            !.fitCalls = Append(@, "fitCovariancesAstier"),
                                            !.phase = IF done.exc = "none"
                                                      THEN "fitted" ELSE "raised"]
                      /\ fit' = fit
             ELSE /\ fit' = [FitIdle EXCEPT !.pc = "amp", !.i = 1, !.runs = 1]
                  /\ run' = [run EXCEPT !.phase = "fit", !.measured = <<>>,
                                        !.fitCalls = Append(@, "fitPtc")]
                  /\ exc' = "none"
                  /\ dataset' = dataset
    /\ UNCHANGED <<config, call, ret, image>>

\* fitPtc raised: the exception leaves runDataRef.
FitRaised ==
    /\ run.phase = "fit"
    /\ fit.pc = "raised"
    /\ run' = [run EXCEPT !.phase = "raised"]
    /\ UNCHANGED <<config, dataset, fit, call, exc, ret, image>>

\* The fit has been called, whether or not it has returned.
fitCalled == run.phase \in {"fit", "fitted"}

\* The call of the fit at line 605 or 609 has returned.
fitFinished ==
    \/ run.phase = "fit" /\ fit.pc = "returned"
    \/ run.phase = "fitted"

\* What a call handed back: the object named by the reference, else None.
returned(r) == IF "ref" \in DOMAIN r THEN r.ref ELSE "None"

\* datasetPtc = self.fitPtc(...), then dataRef.put(datasetPtc, ...).
Put ==
    /\ fitFinished
    /\ run' = [run EXCEPT !.phase = "done",
                          !.datasetPtc = IF run.phase = "fit" THEN returned(ret) ELSE @,
                          !.put = IF run.phase = "fit" THEN returned(ret) ELSE run.datasetPtc]
    /\ UNCHANGED <<config, dataset, fit, call, exc, ret, image>>

-----------------------------------------------------------------------------
(* Calls on the dataset once runDataRef has ended.                         *)

runEnded == run.phase \in {"done", "raised"}

AttributeNames == {"ptcFitType", "fitType", "ampnames"}
ObsTypes == {"PTC", "LINEARIZER"}

CallSetAttr ==
    /\ runEnded
    /\ \E attribute \in AttributeNames :
         \E value \in {"POLYNOMIAL"} :
           LET set == __setattr__(dataset, attribute, value)
           IN  /\ dataset' = set.self
               /\ exc' = set.exc
               /\ call' = [name |-> "__setattr__", attribute |-> attribute, value |-> value]
               /\ ret' = None
    /\ UNCHANGED <<config, run, fit, image>>

CallGetExpIdsUsed ==
    /\ runEnded
    /\ \E ampName \in Range(run.ampNames) :
          LET got == getExpIdsUsed(dataset, ampName)
          IN  /\ exc' = got.exc
              /\ ret' = [value |-> got.value]
              /\ call' = [name |-> "getExpIdsUsed", ampName |-> ampName]
    /\ UNCHANGED <<config, dataset, run, fit, image>>

\* fromDict(d.toDict())
CallRoundTrip ==
    /\ runEnded
    /\ LET out == toDict(dataset)
           back == IF out.exc # "none" THEN out ELSE fromDict(out.value)
       IN  /\ exc' = back.exc
           /\ ret' = [value |-> back.value]
           /\ call' = [name |-> "roundTrip"]
    /\ UNCHANGED <<config, dataset, run, fit, image>>

CallFromDict ==
    /\ runEnded
    /\ \E obstype \in ObsTypes :
          LET back == fromDict(dictionaryOf(dataset, obstype))
          IN  /\ exc' = back.exc
              /\ ret' = [value |-> back.value]
              /\ call' = [name |-> "fromDict", obstype |-> obstype]
    /\ UNCHANGED <<config, dataset, run, fit, image>>

Next ==
    \/ AppendPair
    \/ Dispatch
    \/ FitAmpBegin
    \/ FitIteration
    \/ FitAmpEnd
    \/ FitReturn
    \/ FitRaised
    \/ Put
    \/ CallSetAttr
    \/ CallGetExpIdsUsed
    \/ CallRoundTrip
    \/ CallFromDict

Spec == InitRun /\ [][Next]_vars

-----------------------------------------------------------------------------
(* makePairs.                                                              *)
(* A data reference is [date, expTime, retrievable]; the exposure it gives *)
(* is named by its position in dataRefList.  A dict is its keys in         *)
(* insertion order and the value under each key.                           *)

MaxExposures == 3
ExpTimes == {1, 2}
DataRefs == [date : 1..MaxExposures, expTime : ExpTimes, retrievable : BOOLEAN]

\* expDict: under each date, the first retrievable exposure with that date
\* (dict.setdefault keeps the value already stored).
expDict(dataRefList) ==
    LET retrieved == {k \in 1..Len(dataRefList) : dataRefList[k].retrievable}
        dates == {dataRefList[k].date : k \in retrieved}
    IN  [d \in dates |->
            CHOOSE k \in retrieved :
                /\ dataRefList[k].date = d
                /\ \A j \in retrieved : dataRefList[j].date = d => k <= j]

\* sortedExps = {k: expDict[k] for k in sorted(expDict)}: the exposures in
\* order of date.
sortedExps(dataRefList) ==
    LET byDate == expDict(dataRefList)
        dates == DOMAIN byDate
        dateAt(j) == CHOOSE d \in dates : Cardinality({e \in dates : e < d}) = j - 1
    IN  [j \in 1..Cardinality(dates) |-> byDate[dateAt(j)]]

\* The second loop of makePairs: flatPairs after every exposure was offered.
flatPairsFilled(dataRefList) ==
    LET sorted == sortedExps(dataRefList)
        timeOf(j) == dataRefList[sorted[j]].expTime
        firstAt == {j \in 1..Len(sorted) : \A i \in 1..(j - 1) : timeOf(i) # timeOf(j)}
        keyAt(n) == CHOOSE j \in firstAt : Cardinality({i \in firstAt : i < j}) = n - 1
        atTime(t) == SelectSeq(sorted, LAMBDA k : dataRefList[k].expTime = t)
        listAtExpTime(t) == IF Len(atTime(t)) < 2 THEN atTime(t) ELSE SubSeq(atTime(t), 1, 2)
    IN  [keys |-> [n \in 1..Cardinality(firstAt) |-> timeOf(keyAt(n))],
         value |-> [t \in {timeOf(j) : j \in firstAt} |-> listAtExpTime(t)]]

\* makePairs(dataRefList).  The last loop pops from flatPairs while it
\* iterates over flatPairs.items(): after the first pop the next step of the
\* iteration raises RuntimeError (dictionary changed size during iteration).
makePairs(dataRefList) ==
    LET flatPairs == flatPairsFilled(dataRefList)
        single == {n \in 1..Len(flatPairs.keys) : Len(flatPairs.value[flatPairs.keys[n]]) < 2}
        first == CHOOSE n \in single : \A m \in single : n <= m
    IN  IF single = {}
        THEN [exc |-> "none", value |-> flatPairs, warned |-> {}]
        ELSE [exc |-> "RuntimeError", value |-> None,
              warned |-> {flatPairs.keys[first]}]

InitPairs ==
    /\ config = [ptcFitType |-> "POLYNOMIAL"]
    /\ dataset = <<>>
    /\ run = RunIdle
    /\ fit = FitIdle
    /\ call = NoCall
    /\ exc = "none"
    /\ ret = None
    /\ image = NoImage

CallMakePairs ==
    /\ call = NoCall
    /\ \E n \in 0..MaxExposures :
         \E dataRefList \in [1..n -> DataRefs] :
            LET made == makePairs(dataRefList)
            IN  /\ call' = [name |-> "makePairs", dataRefList |-> dataRefList]
                /\ exc' = made.exc
                /\ ret' = [value |-> made.value, warned |-> made.warned]
    /\ UNCHANGED <<config, dataset, run, fit, image>>

NextPairs == CallMakePairs

SpecPairs == InitPairs /\ [][NextPairs]_vars

-----------------------------------------------------------------------------
(* The covariance estimators of astierCovPtcUtils.                         *)
(* An image is a sequence of rows; sums are exact, and a covariance is the *)
(* reduced fraction num/den, or NaN when the pixel count is zero.          *)

MaxPixels == 3
MaxRange == 4

Max(a, b) == IF a > b THEN a ELSE b
Min(a, b) == IF a < b THEN a ELSE b
Abs(a) == IF a < 0 THEN -a ELSE a

RECURSIVE GCD(_, _)
GCD(a, b) == IF b = 0 THEN a ELSE GCD(b, a % b)

NaNValue == [nan |-> TRUE, num |-> 0, den |-> 1]

\* num/den as numpy evaluates it: 0/0 is NaN.
Ratio(num, den) ==
    IF den = 0
    THEN NaNValue
    ELSE LET g == GCD(Abs(num), Abs(den))
             sign == IF den < 0 THEN -1 ELSE 1
         IN  [nan |-> FALSE, num |-> sign * (num \div g), den |-> sign * (den \div g)]

\* 0.5*(cov1 + cov2)
halfSum(a, b) ==
    IF a.nan \/ b.nan
    THEN NaNValue
    ELSE Ratio(a.num * b.den + b.num * a.den, 2 * a.den * b.den)

\* array.sum() over the cells of a grid
RECURSIVE sum(_, _)
sum(f, cells) ==
    IF cells = {}
    THEN 0
    ELSE LET cell == CHOOSE x \in cells : TRUE
         IN  f[cell] + sum(f, cells \ {cell})

\* Python slice bounds on an axis of length n: a negative bound counts from
\* the end, and bounds are clipped to 0..n.
pyIndex(v, n) == IF v < 0 THEN Max(v + n, 0) ELSE Min(v, n)
sliceFrom(start, n) == [lo |-> pyIndex(start, n), hi |-> n]
sliceTo(stop, n) == [lo |-> 0, hi |-> pyIndex(stop, n)]
sliceLen(sl) == Max(sl.hi - sl.lo, 0)

\* numpy broadcasting of two axis lengths.
broadcastable(n1, n2) == n1 = n2 \/ n1 = 1 \/ n2 = 1
broadcastLen(n1, n2) == IF n1 = 1 THEN n2 ELSE n1

\* Element (i, j) of the view array[rows, cols] broadcast to a larger shape.
viewAt(array, rows, cols, i, j) ==
    array[rows.lo + (IF sliceLen(rows) = 1 THEN 1 ELSE i)]
         [cols.lo + (IF sliceLen(cols) = 1 THEN 1 ELSE j)]

\* wAll = w1: the weight of the second window is dropped.
firstWeight(w1, w2) == w1

\* wAll = w1*w2, element by element
jointWeight(w1, w2) == w1 * w2

\* A report tuple that carries its own covariance as the variance.
reportTupleOwnVar(dx, dy, var, cov, npix) == <<dx, dy, cov, cov, npix>>

\* One tuple of a covariance report.
reportTuple(dx, dy, var, cov, npix) == <<dx, dy, var, cov, npix>>

\* The lag visited at position k of "for dy ...: for dx ...:".
lagAt(k, maxRange) ==
    [dx |-> (k - 1) % (maxRange + 1), dy |-> (k - 1) \div (maxRange + 1)]

covDirectValue(diffImage, weightImage, dx0, dy0) ==
    LET nCols == Len(diffImage)
        nRows == Len(diffImage[1])
        dx == IF dx0 < 0 THEN -dx0 ELSE dx0
        dy == IF dx0 < 0 THEN -dy0 ELSE dy0
        rows1 == IF dy >= 0 THEN sliceFrom(dy, nCols) ELSE sliceTo(nCols + dy, nCols)
        rows2 == IF dy >= 0 THEN sliceTo(nCols - dy, nCols) ELSE sliceFrom(-dy, nCols)
        cols1 == sliceFrom(dx, nRows)
        cols2 == sliceTo(nRows - dx, nRows)
    IN  IF ~broadcastable(sliceLen(rows1), sliceLen(rows2))
           \/ ~broadcastable(sliceLen(cols1), sliceLen(cols2))
        THEN [exc |-> "ValueError", cov |-> NaNValue, nPix |-> 0]
        ELSE LET cells == (1..broadcastLen(sliceLen(rows1), sliceLen(rows2)))
                          \X (1..broadcastLen(sliceLen(cols1), sliceLen(cols2)))
                 im1(c) == viewAt(diffImage, rows1, cols1, c[1], c[2])
                 im2(c) == viewAt(diffImage, rows2, cols2, c[1], c[2])
                 wAll == [c \in cells |->
                             jointWeight(viewAt(weightImage, rows1, cols1, c[1], c[2]),
                                         viewAt(weightImage, rows2, cols2, c[1], c[2]))]
                 nPix == sum(wAll, cells)
                 s1 == sum([c \in cells |-> im1(c) * wAll[c]], cells)
                 s2 == sum([c \in cells |-> im2(c) * wAll[c]], cells)
                 pSum == sum([c \in cells |-> im1(c) * wAll[c] * im2(c)], cells)
             IN  [exc |-> "none",
                  cov |-> Ratio(pSum * nPix - s1 * s2, nPix * nPix),
                  nPix |-> nPix]

computeCovDirect(diffImage, weightImage, maxRange) ==
    LET n == (maxRange + 1) * (maxRange + 1)
        at(k) ==
            LET dx == lagAt(k, maxRange).dx
                dy == lagAt(k, maxRange).dy
                one == covDirectValue(diffImage, weightImage, dx, dy)
                two == covDirectValue(diffImage, weightImage, dx, -dy)
            IN  IF dx * dy > 0
                THEN [exc |-> IF one.exc # "none" THEN one.exc ELSE two.exc,
                      cov |-> halfSum(one.cov, two.cov),
                      nPix |-> one.nPix + two.nPix]
                ELSE one
    IN  IF \E k \in 1..n : at(k).exc # "none"
        THEN [exc |-> "ValueError", value |-> None]
        ELSE [exc |-> "none",
              value |-> [k \in 1..n |->
                            reportTuple(lagAt(k, maxRange).dx, lagAt(k, maxRange).dy,
                                        at(1).cov, at(k).cov, at(k).nPix)]]

\* CovFft.__init__: the two assertions, the even-width rule, and the arrays
\* diff*w and w whose zero-padded transforms are kept.
CovFft(diff, w, fftShape, maxRangeCov) ==
    IF ~(fftShape[1] > Len(diff) + maxRangeCov + 1)
       \/ ~(fftShape[2] > Len(diff[1]) + maxRangeCov + 1)
    THEN [exc |-> "AssertionError"]
    ELSE [exc |-> "none",
          fftShape |-> IF fftShape[2] % 2 = 1
                       THEN <<fftShape[1], fftShape[2] + 1>>
                       ELSE fftShape,
          tIm |-> [r \in 1..Len(diff) |-> [c \in 1..Len(diff[1]) |-> diff[r][c] * w[r][c]]],
          tMask |-> w]

\* irfft2(tX * tY.conjugate())[a, b]: the circular correlation of the padded
\* arrays, sum over m of x[m + (a, b)] * y[m], indices modulo the padded shape.
correlation(x, y, fftShape, a, b) ==
    LET cells == (1..Len(y)) \X (1..Len(y[1]))
        shifted(c) ==
            LET r == ((c[1] - 1) + a) % fftShape[1]
                q == ((c[2] - 1) + b) % fftShape[2]
            IN  IF r < Len(x) /\ q < Len(x[1]) THEN x[r + 1][q + 1] ELSE 0
    IN  sum([c \in cells |-> shifted(c) * y[c[1]][c[2]]], cells)

pCov(self, a, b) == correlation(self.tIm, self.tIm, self.fftShape, a, b)
pMean(self, a, b) == correlation(self.tIm, self.tMask, self.fftShape, a, b)
pCount(self, a, b) == correlation(self.tMask, self.tMask, self.fftShape, a, b)

\* CovFft.cov
cov(self, dx, dy) ==
    LET nPix1 == pCount(self, dy, dx)
        cov1 == Ratio(pCov(self, dy, dx) * nPix1
                      - pMean(self, dy, dx) * pMean(self, -dy, -dx), nPix1 * nPix1)
        nPix2 == pCount(self, -dy, dx)
        cov2 == Ratio(pCov(self, -dy, dx) * nPix2
                      - pMean(self, -dy, dx) * pMean(self, dy, -dx), nPix2 * nPix2)
    IN  IF dx = 0 \/ dy = 0
        THEN [cov |-> cov1, nPix |-> nPix1]
        ELSE [cov |-> halfSum(cov1, cov2), nPix |-> nPix1 + nPix2]

\* CovFft.reportCovFft
reportCovFft(self, maxRange) ==
    LET var == cov(self, 0, 0).cov
    IN  [k \in 1..((maxRange + 1) * (maxRange + 1)) |->
            LET at == cov(self, lagAt(k, maxRange).dx, lagAt(k, maxRange).dy)
            IN  reportTuple(lagAt(k, maxRange).dx, lagAt(k, maxRange).dy,
                            var, at.cov, at.nPix)]

-----------------------------------------------------------------------------
(* The estimators applied to small images.                                 *)

\* A pixel of the difference image with its weight: two good values and a
\* masked one.
Pixels == {[d |-> 1, w |-> 1], [d |-> 3, w |-> 1], [d |-> 5, w |-> 0]}
Shapes == {sh \in (1..MaxPixels) \X (1..MaxPixels) : sh[1] * sh[2] <= MaxPixels}
NotRun == [exc |-> "notRun"]

InitCov ==
    /\ \E sh \in Shapes :
         \E px \in [1..sh[1] -> [1..sh[2] -> Pixels]] :
           \E maxRange \in 0..MaxRange :
             image = [shape |-> sh,
                      diff |-> [r \in 1..sh[1] |-> [c \in 1..sh[2] |-> px[r][c].d]],
                      w |-> [r \in 1..sh[1] |-> [c \in 1..sh[2] |-> px[r][c].w]],
                      maxRange |-> maxRange,
                      fftShape |-> <<0, 0>>,
                      fft |-> NotRun,
                      direct |-> NotRun]
    /\ config = [ptcFitType |-> "FULLCOVARIANCE"]
    /\ dataset = <<>>
    /\ run = RunIdle
    /\ fit = FitIdle
    /\ call = NoCall
    /\ exc = "none"
    /\ ret = None

\* covDirectValue at one lag of a fresh image.
CallCovDirectValue ==
    /\ call = NoCall
    /\ \E dx \in (-image.maxRange)..image.maxRange :
         \E dy \in (-image.maxRange)..image.maxRange :
           LET out == covDirectValue(image.diff, image.w, dx, dy)
           IN  /\ call' = [name |-> "covDirectValue", dx |-> dx, dy |-> dy]
               /\ exc' = out.exc
               /\ ret' = [cov |-> out.cov, nPix |-> out.nPix]
    /\ UNCHANGED <<config, dataset, run, fit, image>>

\* c = CovFft(diff, w, fftShape, maxRangeCov); c.reportCovFft(maxRangeCov)
CallReportCovFft ==
    /\ image.fft = NotRun
    /\ call.name \in {"none", "computeCovDirect"}
    /\ \E pad \in {1, 2} :
          LET fftShape == <<image.shape[1] + image.maxRange + pad,
                            image.shape[2] + image.maxRange + pad>>
              c == CovFft(image.diff, image.w, fftShape, image.maxRange)
          IN  /\ image' = [image EXCEPT
                     !.fftShape = fftShape,
                     !.fft = IF c.exc # "none"
                             THEN [exc |-> c.exc, value |-> None]
                             ELSE [exc |-> "none",
                                   value |-> reportCovFft(c, image.maxRange)]]
              /\ exc' = c.exc
    /\ call' = [name |-> "reportCovFft"]
    /\ ret' = None
    /\ UNCHANGED <<config, dataset, run, fit>>

\* int(np.log(s)/np.log(2.)) for s >= 1: the whole part of the base-2
\* logarithm.
RECURSIVE floorLog2(_)
floorLog2(s) == IF s < 2 THEN 0 ELSE 1 + floorLog2(s \div 2)

\* fftSize(s): x = int(np.log(s)/np.log(2.)); return int(2**(x+1))
fftSize(s) == 2 ^ (floorLog2(s) + 1)

\* The FFT branch of measureMeanVarCov: the padded shape comes from fftSize.
MeasureCovFft ==
    /\ image.fft = NotRun
    /\ call = NoCall
    /\ LET fftShape == <<fftSize(image.shape[1] + image.maxRange),
                         fftSize(image.shape[2] + image.maxRange)>>
           c == CovFft(image.diff, image.w, fftShape, image.maxRange)
       IN  /\ image' = [image EXCEPT
                  !.fftShape = fftShape,
                  !.fft = IF c.exc # "none"
                          THEN [exc |-> c.exc, value |-> None]
                          ELSE [exc |-> "none",
                                value |-> reportCovFft(c, image.maxRange)]]
           /\ exc' = c.exc
    /\ call' = [name |-> "measureMeanVarCov"]
    /\ ret' = None
    /\ UNCHANGED <<config, dataset, run, fit>>

CallComputeCovDirect ==
    /\ image.direct = NotRun
    /\ call.name \in {"none", "reportCovFft"}
    /\ LET out == computeCovDirect(image.diff, image.w, image.maxRange)
       IN  /\ image' = [image EXCEPT !.direct = out]
           /\ exc' = out.exc
    /\ call' = [name |-> "computeCovDirect"]
    /\ ret' = None
    /\ UNCHANGED <<config, dataset, run, fit>>

NextCov ==
    \/ CallCovDirectValue
    \/ CallReportCovFft
    \/ MeasureCovFft
    \/ CallComputeCovDirect

SpecCov == InitCov /\ [][NextCov]_vars

-----------------------------------------------------------------------------
(* Properties.                                                             *)

\* The attribute names __init__ writes into __dict__.
DeclaredAttributes ==
    {"ptcFitType", "ampNames", "badAmps"} \cup PerAmpAttributes

\* C1: on a constructed dataset, assigning to a name that was not declared
\* at construction raises AttributeError and leaves every attribute as it
\* was; assigning to a declared name succeeds and replaces its value, and
\* only its value.
C1_SetAttrProtected ==
    [][(runEnded /\ call'.name = "__setattr__") =>
          IF call'.attribute \notin DeclaredAttributes
          THEN exc' = "AttributeError" /\ dataset' = dataset
          ELSE /\ exc' = "none"
               /\ DOMAIN dataset' = DOMAIN dataset
               /\ dataset'[call'.attribute] = call'.value
               /\ \A a \in DOMAIN dataset \ {call'.attribute} : dataset'[a] = dataset[a]]_vars

\* An undeclared name was assigned after a declared one had been replaced.
C1_Witness ==
    /\ call.name = "__setattr__"
    /\ call.attribute = "fitType"
    /\ exc = "AttributeError"
    /\ dataset.ptcFitType = "POLYNOMIAL"
    /\ config.ptcFitType # "POLYNOMIAL"

\* C2: fromDict(d.toDict()) completes and returns a dataset whose fit type,
\* amplifier names, bad amplifiers and per-amplifier fields equal those of d.
C2_RoundTripPreserves ==
    call.name = "roundTrip" =>
        /\ exc = "none"
        /\ \A a \in DeclaredAttributes \ {"photoCharge"} : ret.value[a] = dataset[a]

\* C3: fromDict on a dictionary whose OBSTYPE is not 'PTC' raises the
\* RuntimeError and returns nothing; with OBSTYPE 'PTC' it does not raise it.
C3_ObstypeChecked ==
    call.name = "fromDict" =>
        IF call.obstype # OBSTYPE
        THEN exc = "RuntimeError" /\ ret.value = None
        ELSE exc # "RuntimeError"

\* The positions of an amplifier's mask that hold True.
usedPositions(ampName) ==
    {k \in 1..Len(dataset.expIdMask[ampName]) : dataset.expIdMask[ampName][k] = TRUE}

\* C4: getExpIdsUsed(amp) returns all of inputExpIdPairs[amp] when
\* expIdMask[amp] is empty; otherwise exactly the pairs at the positions the
\* mask marks True, in their original order.
C4_ExpIdsUsed ==
    (call.name = "getExpIdsUsed" /\ exc = "none") =>
        LET pairs == dataset.inputExpIdPairs[call.ampName]
            used == usedPositions(call.ampName)
            position(j) == CHOOSE k \in used : Cardinality({i \in used : i <= k}) = j
        IN  IF Len(dataset.expIdMask[call.ampName]) = 0
            THEN ret.value = pairs
            ELSE /\ Len(ret.value) = Cardinality(used)
                 /\ \A j \in 1..Len(ret.value) : ret.value[j] = pairs[position(j)]

\* A call on an amplifier whose mask keeps one pair and drops another.
C4_Witness ==
    /\ call.name = "getExpIdsUsed"
    /\ exc = "none"
    /\ usedPositions(call.ampName) # {}
    /\ Cardinality(usedPositions(call.ampName)) < Len(dataset.inputExpIdPairs[call.ampName])
    /\ Len(ret.value) = Cardinality(usedPositions(call.ampName))

\* The points of an amplifier that pass the signal window and the ratio test.
initialMaskOf(ampName) ==
    maskAnd(signalWindowMask(meanVecOriginal(ampName)),
            _getInitialGoodPoints(meanVecOriginal(ampName), varVecOriginal(ampName),
                                  initialNonLinearityExclusionThresholdPositive,
                                  initialNonLinearityExclusionThresholdNegative))

maskWithin(inner, outer) == \A k \in 1..Len(inner) : inner[k] = TRUE => outer[k]

maskInsideInitial ==
    /\ fit.pc \in {"loop", "afterLoop"} => maskWithin(fit.mask, initialMaskOf(ampOf(fit.i)))
    /\ \A ampName \in DOMAIN dataset.expIdMask :
          maskWithin(dataset.expIdMask[ampName], initialMaskOf(ampName))

\* C5: in fitPtc the mask after an iteration of the outlier loop is a subset
\* of the mask before it, the mask never holds a point that the signal window
\* or the initial ratio test excluded, and the stored expIdMask is a subset
\* of the initial mask.
C5_MaskNonIncreasing ==
    /\ []maskInsideInitial
    /\ [][(fit.pc = "loop" /\ fit'.i = fit.i /\ fit'.pc \in {"loop", "afterLoop"}) =>
             maskWithin(fit'.mask, fit.mask)]_vars

\* A stored mask that lost a point of the initial mask in the loop.
C5_Witness ==
    \E ampName \in DOMAIN dataset.expIdMask :
        /\ any(dataset.expIdMask[ampName])
        /\ \E k \in 1..Len(dataset.expIdMask[ampName]) :
              initialMaskOf(ampName)[k] /\ ~dataset.expIdMask[ampName][k]

reportOf(estimate) == estimate.value

\* The (0,0) tuple is first, its covariance is its variance, and every tuple
\* carries that covariance as its variance.
reportStamped(report, maxRange) ==
    /\ Len(report) = (maxRange + 1) * (maxRange + 1)
    /\ report[1][1] = 0 /\ report[1][2] = 0
    /\ report[1][4] = report[1][3]
    /\ \A k \in 1..Len(report) : report[k][3] = report[1][4]

\* C6: for every maxRange >= 0 the report of reportCovFft and the report of
\* computeCovDirect have the lag (0,0) tuple first, with covariance equal to
\* variance, and every tuple's variance equals the covariance of that tuple.
C6_ReportVariance ==
    /\ image.fft.exc = "none" => reportStamped(reportOf(image.fft), image.maxRange)
    /\ image.direct.exc = "none" => reportStamped(reportOf(image.direct), image.maxRange)

\* Both reports exist and hold a lag whose covariance differs from the variance.
C6_Witness ==
    /\ image.fft.exc = "none"
    /\ image.direct.exc = "none"
    /\ image.maxRange >= 1
    /\ \E k \in 1..Len(reportOf(image.fft)) :
          reportOf(image.fft)[k][4] # reportOf(image.fft)[k][3]
    /\ \E k \in 1..Len(reportOf(image.direct)) :
          reportOf(image.direct)[k][4] # reportOf(image.direct)[k][3]

\* C7: for any difference image and binary weight image, with a padded shape
\* that satisfies the FFT precondition, the report of the FFT estimator and
\* the report of the direct estimator hold the same covariance and pixel
\* count at every lag 0 <= dx, dy <= maxRange.
C7_FftEqualsDirect ==
    (image.fft.exc = "none" /\ image.direct # NotRun) =>
        /\ image.direct.exc = "none"
        /\ reportOf(image.direct) = reportOf(image.fft)

\* C8: covDirectValue gives at (dx,dy) what it gives at (-dx,-dy); when dx = 0
\* or dy = 0 it gives at (dx,dy) what it gives at (dx,-dy); and the pixel
\* count at lag (0,0) is the number of pixels of weight 1.
C8_DirectSymmetries ==
    call.name = "covDirectValue" =>
        LET got == [exc |-> exc, cov |-> ret.cov, nPix |-> ret.nPix]
            at(dx, dy) == covDirectValue(image.diff, image.w, dx, dy)
            good == {c \in (1..image.shape[1]) \X (1..image.shape[2]) :
                        image.w[c[1]][c[2]] = 1}
        IN  /\ got = at(-call.dx, -call.dy)
            /\ (call.dx = 0 \/ call.dy = 0) => got = at(call.dx, -call.dy)
            /\ (call.dx = 0 /\ call.dy = 0) => exc = "none" /\ ret.nPix = Cardinality(good)

\* A lag along the rows, taken downwards, with a covariance that is not zero.
C8_Witness ==
    /\ call.name = "covDirectValue"
    /\ call.dx = 0 /\ call.dy = -1
    /\ exc = "none"
    /\ ret.nPix >= 2
    /\ ~ret.cov.nan /\ ret.cov.num # 0

allZero(values) == Len(values) > 0 /\ \A k \in 1..Len(values) : values[k] = 0

\* C9: when fitPtc, configured with at least one outlier iteration, is given
\* an amplifier whose raw variances are all zero, it returns with that
\* amplifier in badAmps and its gain and noise NaN.
C9_ZeroVarianceAmpBad ==
    (fit.pc = "returned" /\ config.maxIterationsPtcOutliers >= 1) =>
        \A ampName \in Range(dataset.ampNames) :
            allZero(dataset.rawVars[ampName]) =>
                /\ ampName \in Range(dataset.badAmps)
                /\ isnan(dataset.gain[ampName])
                /\ isnan(dataset.noise[ampName])

\* C10: every per-amplifier mapping of the dataset has exactly the amplifier
\* names given at construction as its keys, after any number of pair appends
\* in runDataRef, after fitPtc and after fitCovariancesAstier.
C10_AmpKeysFixed ==
    \A a \in PerAmpAttributes : DOMAIN dataset[a] = Range(run.ampNames)

\* runDataRef has ended on two amplifiers, one fitted and one set BAD.
C10_Witness ==
    /\ run.phase = "done"
    /\ Len(run.ampNames) = 2
    /\ \E bad \in Range(run.ampNames) :
         \E good \in Range(run.ampNames) :
            /\ bad \in Range(dataset.badAmps)
            /\ isnan(dataset.gain[bad])
            /\ good \notin Range(dataset.badAmps)
            /\ any(dataset.expIdMask[good])

\* The per-amplifier sequences of the dataset have one length.
sameLengths(self, ampName) ==
    /\ Len(self.rawMeans[ampName]) = Len(self.rawExpTimes[ampName])
    /\ Len(self.rawVars[ampName]) = Len(self.rawExpTimes[ampName])
    /\ Len(self.inputExpIdPairs[ampName]) = Len(self.rawExpTimes[ampName])
    /\ Len(self.expIdMask[ampName]) \in {0, Len(self.rawExpTimes[ampName])}

\* C11: in every dataset state, for each amplifier rawExpTimes, rawMeans,
\* rawVars and inputExpIdPairs have the same length and expIdMask is empty or
\* of that length; getExpIdsUsed never raises its AssertionError.
C11_LengthsEqual ==
    /\ \A ampName \in Range(dataset.ampNames) : sameLengths(dataset, ampName)
    /\ call.name = "getExpIdsUsed" => exc # "AssertionError"

\* getExpIdsUsed after a fit that stored a mask with a dropped point, on a
\* dataset whose amplifiers have different numbers of points.
C11_Witness ==
    /\ call.name = "getExpIdsUsed"
    /\ exc = "none"
    /\ Len(dataset.expIdMask[call.ampName]) = 2
    /\ \E k \in 1..2 : dataset.expIdMask[call.ampName][k] = FALSE
    /\ \E other \in Range(dataset.ampNames) :
          Len(dataset.rawMeans[other]) # Len(dataset.rawMeans[call.ampName])

\* The exposures of dataRefList taken at expTime, in order of date.
exposuresAt(dataRefList, expTime) ==
    LET at == {k \in 1..Len(dataRefList) : dataRefList[k].expTime = expTime}
        nth(n) == CHOOSE k \in at :
                     Cardinality({j \in at : dataRefList[j].date < dataRefList[k].date}) = n - 1
    IN  [n \in 1..Cardinality(at) |-> nth(n)]

\* C12: for a list of at least two retrievable exposures (with distinct
\* dates), makePairs returns normally; the result maps exactly the exposure
\* times that have two or more exposures, each to its first two exposures in
\* order of date.
C12_MakePairs ==
    (/\ call.name = "makePairs"
     /\ Len(call.dataRefList) >= 2
     /\ \A k \in 1..Len(call.dataRefList) : call.dataRefList[k].retrievable
     /\ \A j, k \in 1..Len(call.dataRefList) :
           j # k => call.dataRefList[j].date # call.dataRefList[k].date)
    => /\ exc = "none"
       /\ DOMAIN ret.value.value =
              {t \in ExpTimes : Len(exposuresAt(call.dataRefList, t)) >= 2}
       /\ \A t \in DOMAIN ret.value.value :
              ret.value.value[t] = SubSeq(exposuresAt(call.dataRefList, t), 1, 2)

\* The amplifier got an entry in its raw vectors in the last pass of the
\* pair loop (the exposure time of pass k is k).
recordedInLastPass(ampName) ==
    /\ Len(dataset.rawExpTimes[ampName]) >= 1
    /\ dataset.rawExpTimes[ampName][Len(dataset.rawExpTimes[ampName])] = run.k

\* C13: the signal window is closed at both ends: a pair whose mean equals
\* minMeanSignal or maxMeanSignal (or lies between them) is recorded in the
\* amplifier's raw vectors by runDataRef and kept by fitPtc's window mask.
C13_WindowClosed ==
    (run.phase = "pairs" /\ run.k >= 1) =>
        \A ampName \in Range(run.ampNames) :
            LET m == run.measured[ampName]
            IN  (/\ ~isNanMeasurement(m)
                 /\ m.mu.val >= minMeanSignal
                 /\ m.mu.val <= maxMeanSignal)
                => /\ recordedInLastPass(ampName)
                   /\ dataset.rawMeans[ampName][Len(dataset.rawMeans[ampName])] = m.mu.val
                   /\ signalWindowMask(<<m.mu.val>>)[1]

\* The covariance rows of one amplifier.
rowsOf(records, ampName) == SelectSeq(records, LAMBDA row : row.ampName = ampName)

\* C14: in a pass of runDataRef's pair loop, an amplifier whose measurement
\* has a NaN mean, a NaN variance or no covariance list gets nothing appended
\* (raw vectors and covariance rows unchanged), while an amplifier of the same
\* pair with a usable measurement (mean strictly inside the signal window) is
\* recorded; if every amplifier is NaN the pass changes neither the dataset
\* nor the rows; in no case does the pass raise.
C14_NanSkipped ==
    [][(run.phase = "pairs" /\ run'.phase = "pairs" /\ run'.k = run.k + 1) =>
          /\ exc' = "none"
          /\ \A ampName \in Range(run.ampNames) :
                LET m == run'.measured[ampName]
                    unusable == m.mu.nan \/ m.varDiff.nan \/ m.covAstier = None
                    allUnusable == \A a \in Range(run.ampNames) :
                                      \/ run'.measured[a].mu.nan
                                      \/ run'.measured[a].varDiff.nan
                                      \/ run'.measured[a].covAstier = None
                IN  IF unusable
                    THEN /\ dataset'.rawExpTimes[ampName] = dataset.rawExpTimes[ampName]
                         /\ dataset'.rawMeans[ampName] = dataset.rawMeans[ampName]
                         /\ dataset'.rawVars[ampName] = dataset.rawVars[ampName]
                         /\ dataset'.inputExpIdPairs[ampName] = dataset.inputExpIdPairs[ampName]
                         /\ rowsOf(run'.tupleRecords, ampName) = rowsOf(run.tupleRecords, ampName)
                         /\ allUnusable => (dataset' = dataset
                                            /\ run'.tupleRecords = run.tupleRecords)
                    ELSE (m.mu.val > minMeanSignal /\ m.mu.val < maxMeanSignal) =>
                         /\ dataset'.rawExpTimes[ampName] =
                                Append(dataset.rawExpTimes[ampName], run'.k)
                         /\ dataset'.rawMeans[ampName] =
                                Append(dataset.rawMeans[ampName], m.mu.val)
                         /\ dataset'.rawVars[ampName] =
                                Append(dataset.rawVars[ampName], m.varDiff.val)
                         /\ Len(dataset'.inputExpIdPairs[ampName]) =
                                Len(dataset.inputExpIdPairs[ampName]) + 1
                         /\ Len(rowsOf(run'.tupleRecords, ampName)) =
                                Len(rowsOf(run.tupleRecords, ampName))
                                + Len(m.covAstier.list)]_vars

\* The second pass of the pair loop, in which amplifier A had a finite mean
\* and a NaN variance and amplifier B was recorded; the first pass recorded
\* nothing.
C14_Witness ==
    /\ run.phase = "pairs"
    /\ run.k = 2
    /\ run.ampNames = <<"A", "B">>
    /\ ~run.measured["A"].mu.nan
    /\ run.measured["A"].varDiff.nan
    /\ dataset.rawExpTimes["A"] = <<>>
    /\ dataset.rawExpTimes["B"] = <<2>>
    /\ Len(run.tupleRecords) = 1

\* The fit that runDataRef called has gone through every amplifier.
everyAmplifierFitted ==
    \/ /\ run.fitCalls = <<"fitPtc">>
       /\ config.ptcFitType \in {"EXPAPPROXIMATION", "POLYNOMIAL"}
       /\ fit.pc = "returned"
       /\ fit.i = Len(dataset.ampNames) + 1
    \/ /\ run.fitCalls = <<"fitCovariancesAstier">>
       /\ config.ptcFitType = "FULLCOVARIANCE"
       /\ exc = "none"

\* C15: runDataRef hands the dataset to dataRef.put only after the configured
\* fit has gone through every amplifier: never before the fit, never between
\* two amplifiers; and a run calls one fit method, the one ptcFitType names.
C15_PutAfterFit ==
    /\ [](run.phase \in {"pairs", "fit", "fitted", "raised"} => run.put = "nothing")
    /\ [](Len(run.fitCalls) <= 1)
    /\ [][run'.put # run.put => (everyAmplifierFitted /\ run'.put = "dataset")]_vars

\* The dataset of a two-amplifier detector has been put after fitPtc fitted
\* one amplifier and set the other BAD.
C15_Witness ==
    /\ run.phase = "done"
    /\ run.put = "dataset"
    /\ Len(dataset.ampNames) = 2
    /\ Len(dataset.badAmps) = 1
    /\ \E ampName \in Range(dataset.ampNames) : Len(dataset.expIdMask[ampName]) >= 1

\* C16: for every image dimension n >= 1 and maximum lag r >= 0 the padded
\* size fftSize(n + r) exceeds n + r + 1, so the FFT branch of
\* measureMeanVarCov never fails the assertion of CovFft.__init__.
C16_FftSizePrecondition ==
    call.name = "measureMeanVarCov" =>
        /\ image.fftShape[1] > image.shape[1] + image.maxRange + 1
        /\ image.fftShape[2] > image.shape[2] + image.maxRange + 1
        /\ exc # "AssertionError"

\* C17: once an iteration of the outlier loop has dropped no point (after at
\* least one fit the mask is still the mask the loop started with), no
\* further least-squares fit is made for the amplifier, whatever the cap.
\* Stated for an amplifier without zero variances and for a further fit that
\* again drops nothing.
C17_StopsWhenNothingDropped ==
    [][(/\ fit.pc = "loop"
        /\ fit.fits >= 1
        /\ fit.mask = fit.initialMask
        /\ \A k \in 1..Len(fit.mask) : dataset.rawVars[ampOf(fit.i)][k] # 0)
          => ~(fit'.fits > fit.fits /\ fit'.mask = fit.mask)]_vars

\* The fields the "BAD" block sets to NaN.
DerivedFields ==
    {"gain", "gainErr", "noise", "noiseErr", "ptcFitPars", "ptcFitParsError", "ptcFitChiSq"}

\* C18: when fitPtc comes to an amplifier whose signal-window mask or whose
\* initial ratio mask has no True entry (an amplifier without points
\* included), the step appends the amplifier to badAmps, sets its gain,
\* gainErr, noise, noiseErr, ptcFitPars, ptcFitParsError and ptcFitChiSq to
\* NaN, makes no fit, leaves every expIdMask as it was and goes on to the
\* next amplifier.
C18_InitialBad ==
    [][(/\ fit.pc = "amp"
        /\ fit.i <= Len(dataset.ampNames)
        /\ LET means == dataset.rawMeans[ampOf(fit.i)]
               variances == _makeZeroSafe(dataset.rawVars[ampOf(fit.i)], TRUE).array
           IN  \/ ~any(signalWindowMask(means))
               \/ ~any(_getInitialGoodPoints(
                          means, variances,
                          initialNonLinearityExclusionThresholdPositive,
                          initialNonLinearityExclusionThresholdNegative)))
          => /\ dataset'.badAmps = Append(dataset.badAmps, ampOf(fit.i))
             /\ \A field \in DerivedFields : dataset'[field][ampOf(fit.i)] = NaN
             /\ dataset'.expIdMask = dataset.expIdMask
             /\ fit'.fits = fit.fits
             /\ fit'.pc = "amp"
             /\ fit'.i = fit.i + 1]_vars

\* Amplifier A, with two points inside the signal window that the ratio test
\* both rejects, was set BAD without a fit; fitPtc is at amplifier B.
C18_Witness ==
    /\ run.phase = "fit"
    /\ fit.pc = "amp"
    /\ fit.i = 2
    /\ fit.fits = 0
    /\ Len(dataset.rawMeans["A"]) = 2
    /\ \A k \in 1..2 : signalWindowMask(dataset.rawMeans["A"])[k]
    /\ dataset.badAmps = <<"A">>
    /\ dataset.gain["A"] = NaN
    /\ dataset.expIdMask["A"] = <<>>

\* The outlier loop of the current amplifier has ended: by its break, or
\* because count has passed the cap.
loopEnded ==
    \/ fit.pc = "afterLoop"
    \/ fit.pc = "loop" /\ fit.count > config.maxIterationsPtcOutliers

\* C19: after the outlier loop, an amplifier with fewer retained points than
\* model parameters (3 for EXPAPPROXIMATION, polynomialFitDegree + 1 for
\* POLYNOMIAL) is BAD with NaN derived fields and gets no final fit; an
\* amplifier with at least as many retained points as parameters gets the
\* final fit, and its gain and noise are the values derived from the fit.
C19_TooFewPoints ==
    [][loopEnded =>
          LET ampName == ampOf(fit.i)
          IN  IF nTrue(fit.mask) < nPars(config.ptcFitType)
              THEN /\ Cardinality({k \in 1..Len(dataset'.badAmps) :
                                      dataset'.badAmps[k] = ampName}) = 1
                   /\ \A field \in DerivedFields : dataset'[field][ampName] = NaN
              ELSE /\ ampName \notin Range(dataset'.badAmps)
                   /\ \E g \in FitValues :
                         /\ dataset'.gain[ampName] = Float(g)
                         /\ dataset'.noise[ampName] = Float(g)
                   /\ dataset'.expIdMask[ampName] = fit.mask]_vars

\* The number of times a name occurs in badAmps.
timesBad(ampName) ==
    Cardinality({k \in 1..Len(dataset.badAmps) : dataset.badAmps[k] = ampName})

\* getGoodAmps: the amplifiers that are not in badAmps, in order.
getGoodAmps(self) == SelectSeq(self.ampNames, LAMBDA amp : amp \notin Range(self.badAmps))

\* C20: after any number of fitPtc runs (each with at least one outlier
\* iteration configured), every amplifier is either BAD (once in badAmps,
\* gain and noise NaN) or FITTED (not in badAmps, i.e. among getGoodAmps,
\* mask stored, gain and noise from the fit), never both; and badAmps never
\* holds a name twice or a name that is not in ampNames.
C20_TerminalStates ==
    config.maxIterationsPtcOutliers >= 1 =>
        /\ \A ampName \in Range(dataset.ampNames) : timesBad(ampName) <= 1
        /\ Range(dataset.badAmps) \subseteq Range(dataset.ampNames)
        /\ fit.pc = "returned" =>
              \A ampName \in Range(dataset.ampNames) :
                 LET bad == /\ timesBad(ampName) = 1
                            /\ dataset.gain[ampName] = NaN
                            /\ dataset.noise[ampName] = NaN
                     fitted == /\ ampName \in Range(getGoodAmps(dataset))
                               /\ Len(dataset.expIdMask[ampName]) =
                                      Len(dataset.rawMeans[ampName])
                               /\ \E g \in FitValues :
                                     /\ dataset.gain[ampName] = Float(g)
                                     /\ dataset.noise[ampName] = Float(g)
                 IN  bad # fitted

\* C21: no step of fitPtc changes rawExpTimes, rawMeans, rawVars or
\* inputExpIdPairs of any amplifier, whether the amplifier ends FITTED or BAD:
\* the value substituted for zero variances is not written back to rawVars.
C21_RawVectorsUnchanged ==
    [][/\ dataset'.rawExpTimes = dataset.rawExpTimes
       /\ dataset'.rawMeans = dataset.rawMeans
       /\ dataset'.rawVars = dataset.rawVars
       /\ dataset'.inputExpIdPairs = dataset.inputExpIdPairs]_vars

\* fitPtc has returned; amplifier A is BAD, amplifier B is fitted and its
\* rawVars still hold a zero.
C21_Witness ==
    /\ fit.pc = "returned"
    /\ dataset.badAmps = <<"A">>
    /\ ~isnan(dataset.gain["B"])
    /\ Len(dataset.expIdMask["B"]) >= 2
    /\ \E k \in 1..Len(dataset.rawVars["B"]) : dataset.rawVars["B"][k] = 0

\* The amplifiers of the last fitData call whose tuning loop used all its
\* passes without taking its break.
notConverged ==
    {ext \in DOMAIN ret.covFits :
        ~tuneMaxMu(CovFit(ext, call.r), <<call.maxMu, 1>>, call.crude[ext], 1).broke}

\* C22: in the full-covariance path an amplifier whose tuning loop used all
\* 3 passes without reaching self-consistency is recorded as bad with NaN
\* outputs.
C22_NotConvergedIsBad ==
    run.phase = "done" =>
        \A ext \in notConverged :
            /\ ext \in Range(dataset.badAmps)
            /\ isnan(dataset.gain[ext])
            /\ isnan(dataset.noise[ext])


\* The full-model fits made on a CovFit, in order.
fullFits(c) == SelectSeq(c.fits, LAMBDA f : f # "initFit")

C24_TagsAreTheSchema ==
    ("allTags" \in DOMAIN run /\ run.tupleRecords # <<>>) => run.allTags = tags

\* C25: _makeZeroSafe returns an array of the same length in which every
\* zero is replaced by the substitute value and every other element is as it
\* was; the warning is logged exactly when there was a zero and warn is
\* true; an array without zeros comes back as it was.
C25_MakeZeroSafe ==
    call.name = "_makeZeroSafe" =>
        LET zeros == {k \in 1..Len(call.array) : call.array[k] = 0}
        IN  /\ Len(ret.array) = Len(call.array)
            /\ \A k \in 1..Len(call.array) :
                 ret.array[k] = IF k \in zeros THEN substituteValue ELSE call.array[k]
            /\ ret.warned <=> (zeros # {} /\ call.warn)
            /\ zeros = {} => ret.array = call.array

\* A call without warning on an array holding two zeros and another value.
C25_Witness ==
    /\ call.name = "_makeZeroSafe"
    /\ ~call.warn
    /\ call.array = <<0, 18, 0>>
    /\ ret.array = <<substituteValue, 18, substituteValue>>

\* C26: a covariance tuple whose pixel count is zero does not enter the
\* covariance table that runDataRef builds and passes to the fit.
C26_ZeroPixelTupleNotUsed ==
    "tupleRecords" \in DOMAIN run =>
        \A k \in 1..Len(run.tupleRecords) : run.tupleRecords[k].npix # 0

\* C27: in FULLCOVARIANCE mode the call of fitData made by
\* fitCovariancesAstier, with the sigma-clip threshold and the iteration cap
\* among its keywords, is accepted, and the fit gives every amplifier of the
\* table a gain, a noise and its A and B matrices.
C27_FitDataCallAccepted ==
    ("fitCalls" \in DOMAIN run /\ run.fitCalls = <<"fitCovariancesAstier">>) =>
        /\ exc = "none"
        /\ \A k \in 1..Len(run.tupleRecords) :
             LET amp == run.tupleRecords[k].ampName
             IN  /\ ~isnan(dataset.gain[amp])
                 /\ ~isnan(dataset.noise[amp])
                 /\ Len(dataset.aMatrix[amp]) = 1
                 /\ Len(dataset.bMatrix[amp]) = 1

\* C28: for any cap >= 0 fitPtc makes at most maxIterationsPtcOutliers
\* least-squares fits in an amplifier's outlier loop, never ends by raising,
\* and returns only after going through every amplifier of ampNames.
C28_FitPtcReturns ==
    /\ fit.fits <= config.maxIterationsPtcOutliers
    /\ fit.pc # "raised"
    /\ fit.pc = "returned" => fit.i = Len(dataset.ampNames) + 1

\* C29: whenever the first least-squares fit of an amplifier starts, the
\* combined mask (signal window AND initial ratio cut) has a True entry.
C29_FirstFitHasPoints ==
    (fit.pc = "loop" /\ fit.fits = 0 /\ fit.count <= config.maxIterationsPtcOutliers)
        => any(fit.mask)

\* C30: with the photodiode correction on, once runDataRef has gone through
\* all pairs, photoCharge[amp] is as long as inputExpIdPairs[amp] for every
\* amplifier, and its k-th entry is the charge pair of the k-th recorded
\* exposure pair.
C30_PhotoChargeInStep ==
    ("photodiode" \in DOMAIN run /\ run.photodiode # "off" /\ run.k = run.nPairs) =>
        \A amp \in Range(run.ampNames) :
            /\ Len(dataset.photoCharge[amp]) = Len(dataset.inputExpIdPairs[amp])
            /\ \A k \in 1..Len(dataset.inputExpIdPairs[amp]) :
                 dataset.photoCharge[amp][k] =
                     photoChargeOf(dataset.inputExpIdPairs[amp][k], run.photodiode)

====
